---- MODULE Spec2Model ----
(***************************************************************************)
(* The tcplib packet codec (CustomPacketEncoder / CustomPacketDecoder) as  *)
(* a state machine: one connection, an encoder writing frames through a    *)
(* bufio.Writer into a sink, a byte source delivering what the sink got    *)
(* in arbitrary pieces, and a decoder reading frames through a             *)
(* bufio.Reader.  One action per binary.Write / binary.Read step.          *)
(* Beside it, a caller marking a CustomPacket (ID, SetErrCode), and the    *)
(* Start calls of a MongoClient, one action per step of sync.Once.         *)
(***************************************************************************)
EXTENDS Integers, Sequences, FiniteSets, TLC

VARIABLES
    scenario,   \* which callers and packets this connection sees
    bufferSize, \* the bufferSize both factory functions were called with
    bw,         \* bufio.Writer: [buf: bytes buffered, err: sticky error]
    sink,       \* every byte the underlying io.Writer has received, in order
    sinkOpen,   \* the underlying io.Writer still accepts writes
    epc,        \* per caller, position in Encode: idle, soh, header, body, eoh, panic
    ecall,      \* per caller, index in calls of its current Encode call
    calls,      \* Encode calls in call order: [p: Packet, err: result]
    src,        \* the byte stream the underlying io.Reader delivers
    srcPos,     \* how many bytes of src the reader has taken
    srcClosed,  \* the source reports end-of-input after src
    tampered,   \* position of the stream byte changed in transit, 0 if none
    br,         \* bufio.Reader: bytes taken from the source, not yet consumed
    dpc,        \* decoder position: idle, soh, header, body, eoh, panic
    dpkt,       \* the packet Decode is filling
    dgot,       \* bytes io.ReadFull has gathered for the current field
    dfrom,      \* stream offset at which the current Decode call started
    dcons,      \* stream bytes consumed by the decoder so far
    decoded,    \* Decode results in call order: [err, pkt, from, to]
    ferr,       \* what the last Flush call returned, "none" before any
    pkt,        \* the *CustomPacket a caller holds and marks before sending it
    code,       \* the argument of the last SetErrCode call, <<>> before any
    id,         \* the result of the last ID call, <<>> before any
    mongoClient, \* the MongoClient: [DbConfig, DbConf, DbConfPath, client]
    startOnce,  \* mongoClient.startOnce: [done, locked]
    spc,        \* per caller, position in Start
    serr,       \* per caller, its Start call: [call: number, err: variable err]
    inits,      \* the Start calls in which the function handed to Do has run
    started     \* the Start calls that returned, in return order: [call, err]

vars == << scenario, bufferSize, bw, sink, sinkOpen, epc, ecall, calls, src,
           srcPos, srcClosed, tampered, br, dpc, dpkt, dgot, dfrom, dcons,
           decoded, ferr, pkt, code, id, mongoClient, startOnce, spc, serr, inits,
           started >>

cfgVars == << scenario, bufferSize >>
encVars == << bw, sink, sinkOpen, epc, ecall, calls >>
netVars == << src, srcClosed, tampered >>
decVars == << srcPos, br, dpc, dpkt, dgot, dfrom, dcons, decoded >>
callerVars == << ferr, pkt, code, id >>
dbVars == << mongoClient, startOnce, spc, serr, inits, started >>
codecVars == << encVars, netVars, decVars >>

----------------------------------------------------------------------------
(* Program constants *)

HeaderLen == 13
SohLen == 1
\* the width of the EOH field
EohLen_AsWritten == 1
EohLen == 2

\* bufio.NewReaderSize never makes a buffer smaller than this
minReadBufferSize == 16

(* Bounds of the model *)

MaxStarts == 3   \* Start calls on the MongoClient
MaxFrames == 2   \* Encode calls and Decode calls on the connection
MaxBody == 2     \* longest body
SmallBuf == 3    \* the small configured buffer size
LargeBuf == 32   \* the large configured buffer size

----------------------------------------------------------------------------
(* A uint32 is the pair <<high 16 bits, low 16 bits>>: its values do not   *)
(* fit the integers of TLC.                                                *)

\* the uint32 of a small number
U(n) == << n \div 65536, n % 65536 >>

\* (v - k) mod 2^32, for 0 <= k < 65536
Sub32(v, k) ==
    IF v[2] >= k THEN << v[1], v[2] - k >>
    ELSE << (v[1] - 1) % 65536, v[2] - k + 65536 >>

\* v > 2^31 - 1, the largest 32-bit int
BeyondInt32(v) == v[1] >= 32768

\* v as a byte count; a count beyond 2^31 - 1, more than any stream here
\* delivers, is counted as 2^31 - 1
Count(v) == IF BeyondInt32(v) THEN 2147483647 ELSE v[1] * 65536 + v[2]

Min(a, b) == IF a < b THEN a ELSE b
Max(a, b) == IF a > b THEN a ELSE b

Take(s, n) == SubSeq(s, 1, n)
Drop(s, n) == SubSeq(s, n + 1, Len(s))

(* encoding/binary, BigEndian *)

PutUint16_LittleEndian(v) == << v % 256, (v \div 256) % 256 >>
PutUint16(v) == << (v \div 256) % 256, v % 256 >>
PutUint32(v) == << v[1] \div 256, v[1] % 256, v[2] \div 256, v[2] % 256 >>
Uint16(b) == b[1] * 256 + b[2]
Uint32(b) == << b[1] * 256 + b[2], b[3] * 256 + b[4] >>

----------------------------------------------------------------------------
(* Packet values.  kind is the dynamic type behind the Packet interface:   *)
(* "custom" a *CustomPacket, "nilptr" a nil *CustomPacket, "other" another *)
(* implementation, "nil" the nil interface.                                *)

Pkt(k, soh, seq, ec, plen, ver, ck, body, eoh) ==
    [kind |-> k, SOH |-> soh, Seq |-> seq, ErrCode |-> ec, PacketLen |-> plen,
     Version |-> ver, CheckSum |-> ck, Body |-> body, EOH |-> eoh]

\* &CustomPacket{}
ZeroPacket == Pkt("custom", 0, U(0), 0, U(0), 0, 0, <<>>, 0)

NoPacket == Pkt("nil", 0, U(0), 0, U(0), 0, 0, <<>>, 0)
OtherPacket == Pkt("other", 0, U(0), 0, U(0), 0, 0, <<>>, 0)
NilPtrPacket == Pkt("nilptr", 0, U(0), 0, U(0), 0, 0, <<>>, 0)

HeaderBytes_ComputedCheckSum(p) ==
    PutUint32(p.Seq) \o PutUint16(p.ErrCode) \o PutUint32(p.PacketLen)
        \o << p.Version >>
        \o PutUint16(IF p.Body = <<>> THEN 0 ELSE p.Body[1] + Len(p.Body))
\* binary.Write of the Header struct: the fields in declared order
HeaderBytes(p) ==
    PutUint32(p.Seq) \o PutUint16(p.ErrCode) \o PutUint32(p.PacketLen)
        \o << p.Version >> \o PutUint16(p.CheckSum)

\* binary.Read into the Header struct
ReadHeader(p, b) ==
    [p EXCEPT !.Seq = Uint32(SubSeq(b, 1, 4)),
              !.ErrCode = Uint16(SubSeq(b, 5, 6)),
              !.PacketLen = Uint32(SubSeq(b, 7, 10)),
              !.Version = b[11],
              !.CheckSum = Uint16(SubSeq(b, 12, 13))]

\* what each of Encode's four binary.Write calls hands to the bufio.Writer
FieldBytes(pc, p) ==
    CASE pc = "soh" -> << p.SOH >>
      [] pc = "header" -> HeaderBytes(p)
      [] pc = "body" -> p.Body
      [] pc = "eoh" -> << p.EOH >>

FrameBytes(p) ==
    FieldBytes("soh", p) \o FieldBytes("header", p) \o FieldBytes("body", p)
        \o FieldBytes("eoh", p)

BodyLen_Clamped(plen) ==
    IF plen[1] = 0 /\ plen[2] < HeaderLen + SohLen + EohLen THEN U(0)
    ELSE Sub32(Sub32(Sub32(plen, HeaderLen), SohLen), EohLen)
BodyLen_NoEohLen(plen) == Sub32(Sub32(plen, HeaderLen), SohLen)
BodyLen_OneByteEoh(plen) == Sub32(Sub32(Sub32(plen, HeaderLen), SohLen), 1)
\* bodyLen := packet.PacketLen - HeaderLen - SohLen - EohLen, in uint32
BodyLen(plen) == Sub32(Sub32(Sub32(plen, HeaderLen), SohLen), EohLen)

\* how many bytes each of Decode's four binary.Read calls asks for
Need(pc, p) ==
    CASE pc = "soh" -> 1
      [] pc = "header" -> HeaderLen
      [] pc = "body" -> Count(BodyLen(p.PacketLen))
      [] pc = "eoh" -> 1

\* make([]byte, bodyLen): a length beyond a 32-bit int panics on a build
\* whose int is 32 bits wide and allocates on a 64-bit build
MakeOutcomes(n) == IF BeyondInt32(n) THEN {"ok", "panic"} ELSE {"ok"}

----------------------------------------------------------------------------
(* bufio.Writer *)

WriterSize == IF bufferSize <= 0 THEN 4096 ELSE bufferSize
ReaderSize == Max(bufferSize, minReadBufferSize)

\* Writer.Flush: [b: the writer after, out: bytes the sink received,
\* err: an error is returned].  A failing sink takes no byte.
bwFlush(b, open) ==
    IF b.err THEN [b |-> b, out |-> <<>>, err |-> TRUE]
    ELSE IF Len(b.buf) = 0 THEN [b |-> b, out |-> <<>>, err |-> FALSE]
    ELSE IF open THEN [b |-> [b EXCEPT !.buf = <<>>], out |-> b.buf, err |-> FALSE]
    ELSE [b |-> [b EXCEPT !.err = TRUE], out |-> <<>>, err |-> TRUE]

bwWrite_Unbuffered(b, p, size, open) ==
    IF b.err THEN [b |-> b, out |-> <<>>, err |-> TRUE]
    ELSE IF open THEN [b |-> [b EXCEPT !.buf = <<>>], out |-> b.buf \o p, err |-> FALSE]
    ELSE [b |-> [b EXCEPT !.err = TRUE], out |-> <<>>, err |-> TRUE]
\* Writer.Write(p): fills the buffer, flushing it whenever it is full, and
\* hands p to the sink directly while the buffer is empty and p does not fit
RECURSIVE bwWrite(_, _, _, _)
bwWrite(b, p, size, open) ==
    IF Len(p) > size - Len(b.buf) /\ ~b.err
    THEN IF Len(b.buf) = 0
         THEN IF open
              THEN LET r == bwWrite(b, <<>>, size, open)
                   IN  [r EXCEPT !.out = p \o r.out]
              ELSE [b |-> [b EXCEPT !.err = TRUE], out |-> <<>>, err |-> TRUE]
         ELSE LET n == size - Len(b.buf)
                  f == bwFlush([b EXCEPT !.buf = b.buf \o Take(p, n)], open)
                  r == bwWrite(f.b, Drop(p, n), size, open)
              IN  [r EXCEPT !.out = f.out \o r.out]
    ELSE IF b.err
         THEN [b |-> b, out |-> <<>>, err |-> TRUE]
         ELSE [b |-> [b EXCEPT !.buf = b.buf \o p], out |-> <<>>, err |-> FALSE]

----------------------------------------------------------------------------
(* The packets and configurations the model draws from *)

Callers == {1, 2}

\* the callers that use the encoder in a scenario
Writers == IF scenario \in {"race", "serial"} THEN Callers ELSE {1}

\* a body of L bytes: 65, 66, ...
BodyOf(L) == [i \in 1..L |-> 64 + i]

\* declared lengths tried for a body of L bytes: 13 + 1 + 2 + L, one less
\* (13 + 1 + 1 + L), one more, and two lengths below 16
PacketLens(L) == {16 + L, 15 + L, 17 + L, 15, 0}

\* header field values: <<Seq, ErrCode, Version>>
HeaderVals == { << <<258, 772>>, 1286, 7 >>, << <<65535, 65535>>, 0, 255 >> }
CheckSums == {0, 2057}
SOHs == {0, 255}
EOHs == {4, 255}

CustomPackets(sohs, eohs, hdrs, cks, lens, deltas) ==
    { Pkt("custom", s, h[1], h[2], U(16 + L + d), h[3], ck, BodyOf(L), e) :
        s \in sohs, e \in eohs, h \in hdrs, ck \in cks, L \in lens, d \in deltas }

\* one frame per connection, every field varied
OnePool ==
    CustomPackets(SOHs, EOHs, HeaderVals, CheckSums, 0..MaxBody, {0})
      \cup UNION { { Pkt("custom", 1, <<258, 772>>, 1286, U(n), 7, 2057, BodyOf(L), 4) :
                       n \in PacketLens(L) } : L \in 0..MaxBody }
      \cup {OtherPacket, NoPacket, NilPtrPacket}

\* several frames per connection: frames that differ in header and body
\* with the declared length the decoder expects, a frame declaring one byte
\* less, and two values that are no *CustomPacket
ManyPool ==
    CustomPackets({1}, {4}, HeaderVals, {2057}, {0}, {0})
      \cup CustomPackets({1}, {4}, { << <<258, 772>>, 1286, 7 >> }, {2057},
                         {MaxBody}, {0, -1})
      \cup {OtherPacket, NoPacket}

\* several well-formed frames per connection
LivePool ==
    CustomPackets({1}, {4}, { << <<65535, 65535>>, 0, 255 >> }, {2057}, {0}, {0})
      \cup CustomPackets({1}, {4}, { << <<258, 772>>, 1286, 7 >> }, {2057},
                         {MaxBody}, {0})

\* frames for an encoder whose sink may fail: an empty body, a body that
\* fills the small buffer, a body longer than the small buffer, a body
\* under a declared length the decoder does not expect, and a value that
\* is no *CustomPacket
EncPool ==
    CustomPackets({1}, {4}, { << <<258, 772>>, 1286, 7 >> }, {2057},
                  {0, SmallBuf, SmallBuf + 1}, {0})
      \cup CustomPackets({255}, {255}, { << <<65535, 65535>>, 0, 255 >> }, {0},
                         {MaxBody}, {-1})
      \cup {OtherPacket}

\* frames of a connection whose writer and reader disagree on a length:
\* an empty frame declaring 15 bytes more than the decoder expects (the
\* size of an empty frame on the wire), and a well-formed frame
DriftPool ==
    CustomPackets({1}, {4}, { << <<258, 772>>, 1286, 7 >> }, {2057}, {0},
                  {SohLen + HeaderLen + 1})
      \cup CustomPackets({1}, {4}, { << <<65535, 65535>>, 0, 255 >> }, {2057},
                         {0}, {0})

\* two frames that differ in every field, for two callers of one encoder
RacePool ==
    CustomPackets({1}, {4}, { << <<258, 772>>, 1286, 7 >> }, {2057},
                  {MaxBody}, {0})
      \cup CustomPackets({255}, {255}, { << <<65535, 65535>>, 0, 255 >> }, {0},
                         {0}, {0})

\* the packets a caller marks with SetErrCode before it sends them
MarkPool == CustomPackets({1}, {4}, HeaderVals, {2057}, {0}, {0})

\* the codes passed to SetErrCode, as uint32: 0, 7, 65535, 65536, 65543,
\* 2^31 and 2^32 - 1
Codes == { <<0, 0>>, <<0, 7>>, <<0, 65535>>, <<1, 0>>, <<1, 7>>, <<32768, 0>>,
           <<65535, 65535>> }

Pool ==
    CASE scenario = "one" -> OnePool
      [] scenario = "mark" -> {pkt}
      [] scenario \in {"race", "serial"} -> RacePool
      [] scenario = "drift" -> DriftPool
      [] scenario = "live" -> LivePool
      [] scenario = "enc" -> EncPool
      [] OTHER -> ManyPool
Limit ==
    CASE scenario = "one" -> 1
      [] scenario = "drift" -> MaxFrames + 1
      [] OTHER -> MaxFrames

BufferSizes == {SmallBuf, LargeBuf}

\* the codec of one connection after the two factory functions
InitCodec(sc) ==
    /\ scenario = sc
    /\ bufferSize \in BufferSizes
    /\ bw = [buf |-> <<>>, err |-> FALSE]
    /\ sink = <<>>
    /\ sinkOpen = TRUE
    /\ epc = [c \in Callers |-> "idle"]
    /\ ecall = [c \in Callers |-> 0]
    /\ calls = <<>>
    /\ src = <<>>
    /\ srcPos = 0
    /\ srcClosed = FALSE
    /\ tampered = 0
    /\ br = <<>>
    /\ dpc = "idle"
    /\ dpkt = NoPacket
    /\ dgot = <<>>
    /\ dfrom = 0
    /\ dcons = 0
    /\ decoded = <<>>
    /\ ferr = "none"

\* no packet is held apart from those handed to Encode
NoMarks == pkt = NoPacket /\ code = <<>> /\ id = <<>>

\* a nil *MongoConfig and a nil *ini.File; of a configuration the model
\* keeps how many hosts it names and its DataBase
NilConfig == [set |-> FALSE, Hosts |-> 0, DataBase |-> ""]
NilFile == [set |-> FALSE, Hosts |-> 0]

MongoConfigs ==
    { [set |-> TRUE, Hosts |-> h, DataBase |-> d] : h \in 0..1, d \in {"", "db"} }
IniFiles == { [set |-> TRUE, Hosts |-> h] : h \in 0..1 }

\* a MongoClient{} on which Start was never called
NoClient ==
    /\ mongoClient = [DbConfig |-> NilConfig, DbConf |-> NilFile, DbConfPath |-> "",
                      DataBase |-> "", client |-> "nil"]
    /\ startOnce = [done |-> 0, locked |-> FALSE]
    /\ spc = [c \in Callers |-> "idle"]
    /\ serr = [c \in Callers |-> [call |-> 0, err |-> "nil"]]
    /\ inits = <<>>
    /\ started = <<>>

InitWith(sc) == InitCodec(sc) /\ NoMarks /\ NoClient

Init == InitWith("many")
InitOne == InitWith("one")
InitLive == InitWith("live")
InitEnc == InitWith("enc")
InitDrift == InitWith("drift")

\* a caller that holds one packet and an encoder
InitMark ==
    /\ InitCodec("mark")
    /\ pkt \in MarkPool /\ code = <<>> /\ id = <<>>
    /\ NoClient

\* a MongoClient as its user filled it in, before the first Start: with a
\* DbConfig, with a DbConf, or with a DbConfPath or none
InitMongo ==
    /\ InitCodec("db") /\ NoMarks
    /\ mongoClient \in
          { [DbConfig |-> c, DbConf |-> NilFile, DbConfPath |-> "",
             DataBase |-> "db", client |-> "nil"] : c \in MongoConfigs }
          \cup { [DbConfig |-> NilConfig, DbConf |-> f, DbConfPath |-> "",
                  DataBase |-> "db", client |-> "nil"] : f \in IniFiles }
          \cup { [DbConfig |-> NilConfig, DbConf |-> NilFile, DbConfPath |-> q,
                  DataBase |-> "db", client |-> "nil"] :
                    q \in {"", "conf/db.txt", "conf/db.ini"} }
    /\ startOnce = [done |-> 0, locked |-> FALSE]
    /\ spc = [c \in Callers |-> "idle"]
    /\ serr = [c \in Callers |-> [call |-> 0, err |-> "nil"]]
    /\ inits = <<>>
    /\ started = <<>>

\* two callers share the encoder: they call it without any serialization
\* ("race") or one at a time ("serial")
InitRace == InitWith("race") \/ InitWith("serial")

----------------------------------------------------------------------------
(* Encoder *)

Fields == {"soh", "header", "body", "eoh"}

NextField_NoEoh(pc) ==
    CASE pc = "soh" -> "header"
      [] pc = "header" -> "body"
      [] pc = "body" -> "idle"
      [] pc = "eoh" -> "idle"
NextField_BodyFirst(pc) ==
    CASE pc = "soh" -> "body"
      [] pc = "body" -> "header"
      [] pc = "header" -> "eoh"
      [] pc = "eoh" -> "idle"
NextField(pc) ==
    CASE pc = "soh" -> "header"
      [] pc = "header" -> "body"
      [] pc = "body" -> "eoh"
      [] pc = "eoh" -> "idle"

\* bytes the sink receives also travel to the reader, unless the stream is cut
Transmit(out) ==
    /\ sink' = sink \o out
    /\ src' = IF srcClosed THEN src ELSE src \o out

EncodeCall_NoAssertion(c, p) ==
    /\ epc[c] = "idle"
    /\ \A d \in Writers : scenario # "race" => epc[d] = "idle"
    /\ Len(calls) < Limit
    /\ ecall' = [ecall EXCEPT ![c] = Len(calls) + 1]
    /\ calls' = Append(calls, [p |-> p, err |-> "pending"])
    /\ epc' = [epc EXCEPT ![c] = "soh"]
    /\ UNCHANGED << cfgVars, callerVars, dbVars, bw, sink, sinkOpen, netVars, decVars >>
\* Encode is entered: the type assertion p.(*CustomPacket)
EncodeCall(c, p) ==
    /\ epc[c] = "idle"
    /\ \A d \in Writers : scenario # "race" => epc[d] = "idle"
    /\ Len(calls) < Limit
    /\ ecall' = [ecall EXCEPT ![c] = Len(calls) + 1]
    /\ CASE p.kind = "custom" ->
              /\ calls' = Append(calls, [p |-> p, err |-> "pending"])
              /\ epc' = [epc EXCEPT ![c] = "soh"]
         [] p.kind = "nilptr" ->
              \* packet.SOH through a nil pointer
              /\ calls' = Append(calls, [p |-> p, err |-> "panic"])
              /\ epc' = [epc EXCEPT ![c] = "panic"]
         [] OTHER ->
              /\ calls' = Append(calls, [p |-> p, err |-> "mismatch"])
              /\ epc' = epc
    /\ UNCHANGED << cfgVars, callerVars, dbVars, bw, sink, sinkOpen, netVars, decVars >>

EncodeWrite_SetsPacketLen(c) ==
    /\ epc[c] \in Fields
    /\ LET q == calls[ecall[c]].p
           p == [q EXCEPT !.PacketLen = U(HeaderLen + SohLen + EohLen + Len(q.Body))]
           r == bwWrite(bw, FieldBytes(epc[c], p), WriterSize, sinkOpen)
           to == IF r.err THEN "idle" ELSE NextField(epc[c])
       IN  /\ bw' = r.b
           /\ Transmit(r.out)
           /\ epc' = [epc EXCEPT ![c] = to]
           /\ calls' = [calls EXCEPT ![ecall[c]] =
                           [p |-> p,
                            err |-> IF r.err THEN "io"
                                    ELSE IF to = "idle" THEN "nil" ELSE @.err]]
    /\ UNCHANGED << cfgVars, callerVars, dbVars, sinkOpen, ecall, srcClosed, tampered, decVars >>
EncodeWrite_SwallowsError(c) ==
    /\ epc[c] \in Fields
    /\ LET p == calls[ecall[c]].p
           r == bwWrite(bw, FieldBytes(epc[c], p), WriterSize, sinkOpen)
           to == NextField(epc[c])
       IN  /\ bw' = r.b
           /\ Transmit(r.out)
           /\ epc' = [epc EXCEPT ![c] = to]
           /\ calls' = IF to = "idle" THEN [calls EXCEPT ![ecall[c]].err = "nil"]
                       ELSE calls
    /\ UNCHANGED << cfgVars, callerVars, dbVars, sinkOpen, ecall, srcClosed, tampered, decVars >>
\* one of Encode's four binary.Write calls, and the return that follows it
EncodeWrite(c) ==
    /\ epc[c] \in Fields
    /\ LET p == calls[ecall[c]].p
           r == bwWrite(bw, FieldBytes(epc[c], p), WriterSize, sinkOpen)
           to == IF r.err THEN "idle" ELSE NextField(epc[c])
       IN  /\ bw' = r.b
           /\ Transmit(r.out)
           /\ epc' = [epc EXCEPT ![c] = to]
           /\ calls' = IF r.err THEN [calls EXCEPT ![ecall[c]].err = "io"]
                       ELSE IF to = "idle" THEN [calls EXCEPT ![ecall[c]].err = "nil"]
                       ELSE calls
    /\ UNCHANGED << cfgVars, callerVars, dbVars, sinkOpen, ecall, srcClosed, tampered, decVars >>

Flush_SwallowsError(c) ==
    /\ epc[c] = "idle"
    /\ \A d \in Writers : scenario # "race" => epc[d] = "idle"
    /\ LET r == bwFlush(bw, sinkOpen)
       IN  /\ bw' = r.b
           /\ Transmit(r.out)
           /\ ferr' = "nil"
    /\ UNCHANGED << cfgVars, pkt, code, id, dbVars, sinkOpen, epc, ecall, calls,
                    srcClosed, tampered, decVars >>
\* Flush
Flush(c) ==
    /\ epc[c] = "idle"
    /\ \A d \in Writers : scenario # "race" => epc[d] = "idle"
    /\ LET r == bwFlush(bw, sinkOpen)
       IN  /\ bw' = r.b
           /\ Transmit(r.out)
           /\ ferr' = IF r.err THEN "io" ELSE "nil"
    /\ UNCHANGED << cfgVars, pkt, code, id, dbVars, sinkOpen, epc, ecall, calls,
                    srcClosed, tampered, decVars >>

----------------------------------------------------------------------------
(* CustomPacket *)

\* uint16(v) of a uint32 v: its low 16 bits
ToUint16_Saturating(v) == IF v[1] > 0 THEN 65535 ELSE v[2]
ToUint16(v) == v[2]

\* p.ID()
ID(c) ==
    /\ scenario = "mark"
    /\ epc[c] = "idle"
    /\ id' = pkt.Seq
    /\ UNCHANGED << cfgVars, codecVars, dbVars, ferr, pkt, code >>

\* p.SetErrCode(v)
SetErrCode(c, v) ==
    /\ scenario = "mark"
    /\ epc[c] = "idle"
    /\ pkt' = [pkt EXCEPT !.ErrCode = ToUint16(v)]
    /\ code' = v
    /\ UNCHANGED << cfgVars, codecVars, dbVars, ferr, id >>

----------------------------------------------------------------------------
(* The transport between the sink and the decoder's source *)

\* bytes of the stream the source can still deliver
Avail == Len(src) - srcPos

\* the connection is cut: the source delivers the first k bytes of what was
\* sent and then reports end-of-input
Close(k) ==
    /\ ~srcClosed
    /\ k \in srcPos..Len(src)
    /\ src' = Take(src, k)
    /\ srcClosed' = TRUE
    /\ UNCHANGED << cfgVars, callerVars, dbVars, encVars, tampered, decVars >>

\* the calls that passed the type assertion, in call order
IsFrame(c) == c.p.kind = "custom"
Frames == SelectSeq(calls, IsFrame)

\* offset in the stream of the first byte after the k-th frame, when the
\* frames are written whole and one after the other
RECURSIVE FrameEnd(_)
FrameEnd(k) ==
    IF k = 0 THEN 0 ELSE FrameEnd(k - 1) + 15 + Len(Frames[k].p.Body)

\* stream positions that hold body bytes of the frames
BodyPositions ==
    UNION { { FrameEnd(k - 1) + 14 + i : i \in 1..Len(Frames[k].p.Body) } :
              k \in 1..Len(Frames) }

\* one body byte not yet delivered is changed in transit
Tamper(i, v) ==
    /\ tampered = 0
    /\ i \in BodyPositions
    /\ i > srcPos /\ i <= Len(src)
    /\ v # src[i]
    /\ src' = [src EXCEPT ![i] = v]
    /\ tampered' = i
    /\ UNCHANGED << cfgVars, callerVars, dbVars, encVars, srcClosed, decVars >>

\* the sink starts to refuse writes
SinkFail ==
    /\ sinkOpen
    /\ sinkOpen' = FALSE
    /\ UNCHANGED << cfgVars, callerVars, dbVars, bw, sink, epc, ecall, calls, netVars, decVars >>

----------------------------------------------------------------------------
(* Decoder *)

\* Decode is entered: packet := &CustomPacket{}
DecodeCall ==
    /\ dpc = "idle"
    /\ Len(decoded) < Limit
    /\ dpc' = "soh"
    /\ dpkt' = ZeroPacket
    /\ dgot' = <<>>
    /\ dfrom' = dcons
    /\ UNCHANGED << cfgVars, callerVars, dbVars, encVars, netVars, srcPos, br, dcons, decoded >>

Return_KeepsPacket(err, p, to) ==
    /\ decoded' = Append(decoded, [err |-> err, pkt |-> p,
                                   from |-> dfrom, to |-> to])
    /\ dpc' = "idle"
    /\ dpkt' = NoPacket
    /\ dgot' = <<>>
Return_ChecksSentinel(err, p, to) ==
    /\ decoded' = Append(decoded,
                         [err |-> IF err = "nil" /\ p.EOH # 4 THEN "sentinel" ELSE err,
                          pkt |-> IF err = "nil" /\ p.EOH = 4 THEN p ELSE NoPacket,
                          from |-> dfrom, to |-> to])
    /\ dpc' = "idle"
    /\ dpkt' = NoPacket
    /\ dgot' = <<>>
\* Decode returns: the packet with a nil error, or nil with the error
Return(err, p, to) ==
    /\ decoded' = Append(decoded, [err |-> err,
                                   pkt |-> IF err = "nil" THEN p ELSE NoPacket,
                                   from |-> dfrom, to |-> to])
    /\ dpc' = "idle"
    /\ dpkt' = NoPacket
    /\ dgot' = <<>>

\* io.ReadFull has gathered got for the current field after one Read on the
\* bufio.Reader that consumed up to stream offset cons: binary.Read stores
\* the field once it is complete and Decode moves on
Gathered(got, cons) ==
    /\ dcons' = cons
    /\ IF Len(got) < Need(dpc, dpkt)
       THEN /\ dgot' = got
            /\ UNCHANGED << dpc, dpkt, decoded >>
       ELSE CASE dpc = "soh" ->
                   /\ dpkt' = [dpkt EXCEPT !.SOH = got[1]]
                   /\ dpc' = "header"
                   /\ dgot' = <<>>
                   /\ UNCHANGED decoded
              [] dpc = "header" ->
                   LET p == ReadHeader(dpkt, got)
                       n == BodyLen(p.PacketLen)
                   IN  \E m \in MakeOutcomes(n) :
                          /\ dpkt' = p
                          /\ dpc' = IF m = "panic" THEN "panic"
                                    ELSE IF n = U(0) THEN "eoh" ELSE "body"
                          /\ dgot' = <<>>
                          /\ UNCHANGED decoded
              [] dpc = "body" ->
                   /\ dpkt' = [dpkt EXCEPT !.Body = got]
                   /\ dpc' = "eoh"
                   /\ dgot' = <<>>
                   /\ UNCHANGED decoded
              [] dpc = "eoh" ->
                   Return("nil", [dpkt EXCEPT !.EOH = got[1]], cons)

Reading == dpc \in Fields
Want == Need(dpc, dpkt) - Len(dgot)

\* Reader.Read with bytes in the buffer: copies what it has, no source read
ReadBuffered ==
    /\ Reading
    /\ br # <<>>
    /\ LET n == Min(Want, Len(br))
       IN  /\ br' = Drop(br, n)
           /\ Gathered(dgot \o Take(br, n), dcons + n)
    /\ UNCHANGED << cfgVars, callerVars, dbVars, encVars, netVars, srcPos, dfrom >>

ReadSource_Greedy(n) ==
    /\ Reading
    /\ br = <<>>
    /\ n >= 1 /\ n <= Avail
    /\ LET data == SubSeq(src, srcPos + 1, Len(src))
           k == Min(Want, Len(data))
       IN  /\ srcPos' = Len(src)
           /\ br' = Drop(data, k)
           /\ Gathered(dgot \o Take(data, k), dcons + k)
    /\ UNCHANGED << cfgVars, callerVars, dbVars, encVars, netVars, dfrom >>
ReadSource_NoReadFull(n) ==
    /\ Reading
    /\ br = <<>>
    /\ n >= 1 /\ n <= Avail
    /\ n <= (IF Want >= ReaderSize THEN Want ELSE ReaderSize)
    /\ LET data == SubSeq(src, srcPos + 1, srcPos + n)
           m == Min(Want, n)
           zeros == IF Want < 64 THEN [i \in 1..(Want - m) |-> 0] ELSE <<>>
       IN  /\ srcPos' = srcPos + n
           /\ br' = Drop(data, m)
           /\ Gathered(dgot \o Take(data, m) \o zeros, dcons + m)
    /\ UNCHANGED << cfgVars, callerVars, dbVars, encVars, netVars, dfrom >>
\* Reader.Read with an empty buffer: one Read on the source, which delivers
\* n bytes; into the caller's slice when that is at least a buffer long,
\* else into the buffer, from which the caller's share is copied
ReadSource(n) ==
    /\ Reading
    /\ br = <<>>
    /\ n >= 1 /\ n <= Avail
    /\ n <= (IF Want >= ReaderSize THEN Want ELSE ReaderSize)
    /\ LET data == SubSeq(src, srcPos + 1, srcPos + n)
           m == Min(Want, n)
       IN  /\ srcPos' = srcPos + n
           /\ br' = Drop(data, m)
           /\ Gathered(dgot \o Take(data, m), dcons + m)
    /\ UNCHANGED << cfgVars, callerVars, dbVars, encVars, netVars, dfrom >>

\* Reader.Read with an empty buffer at end-of-input: io.ReadFull gives
\* io.EOF when it has gathered nothing, io.ErrUnexpectedEOF otherwise
ReadEOF ==
    /\ Reading
    /\ br = <<>>
    /\ Avail = 0
    /\ srcClosed
    /\ Return(IF dgot = <<>> THEN "EOF" ELSE "ErrUnexpectedEOF", dpkt, dcons)
    /\ UNCHANGED << cfgVars, callerVars, dbVars, encVars, netVars, srcPos, br, dfrom, dcons >>

----------------------------------------------------------------------------
(* MongoClient *)

defaultConf == "conf/conf.ini"

\* initWithMongoConfig(c) with the outcome of mongo.Connect:
\* [m: the client after, c: the configuration after, err]
initWithMongoConfig(mcl, c, connect) ==
    IF c.Hosts = 0 THEN [m |-> mcl, c |-> c, err |-> "mongo Config No Hosts"]
    ELSE LET c2 == [c EXCEPT !.DataBase = IF @ = "" THEN "admin" ELSE @]
         IN  IF connect = "err" THEN [m |-> mcl, c |-> c2, err |-> "connect"]
             ELSE [m |-> [mcl EXCEPT !.client = "client"], c |-> c2, err |-> "nil"]

\* initDbs(f, db): a MongoConfig made from the section of the ini file
initDbs(mcl, f, db, connect) ==
    initWithMongoConfig(mcl, [set |-> TRUE, Hosts |-> f.Hosts, DataBase |-> db],
                        connect)

\* initObjForMongoDb(filePath) with the outcome of ini.Load (NilFile when
\* it fails)
initObjForMongoDb(mcl, filePath, load, connect) ==
    IF filePath = "" THEN [m |-> mcl, err |-> "dbConf not set in g_cfg"]
    ELSE IF filePath \notin {"conf/conf.ini", "conf/db.ini"}
    THEN [m |-> mcl, err |-> "dbConf not an ini file"]
    ELSE IF ~load.set THEN [m |-> mcl, err |-> "load"]
    ELSE initDbs(mcl, load, mcl.DataBase, connect)

\* the function Start hands to startOnce.Do
StartFunc(mcl, load, connect) ==
    IF mcl.DbConfig.set
    THEN LET r == initWithMongoConfig(mcl, mcl.DbConfig, connect)
         IN  [m |-> [r.m EXCEPT !.DbConfig = r.c], err |-> r.err]
    ELSE IF mcl.DbConf.set
    THEN LET r == initDbs(mcl, mcl.DbConf, mcl.DataBase, connect)
         IN  [m |-> r.m, err |-> r.err]
    ELSE LET m1 == [mcl EXCEPT !.DbConfPath = IF @ = "" THEN defaultConf ELSE @]
             r == initObjForMongoDb(m1, m1.DbConfPath, load, connect)
         IN  [m |-> r.m, err |-> r.err]

\* Start calls begun so far
Begun == Len(started) + Cardinality({ c \in Callers : spc[c] # "idle" })

\* Start is entered: var err error
StartCall(c) ==
    /\ scenario = "db"
    /\ spc[c] = "idle"
    /\ Begun < MaxStarts
    /\ serr' = [serr EXCEPT ![c] = [call |-> Begun + 1, err |-> "nil"]]
    /\ spc' = [spc EXCEPT ![c] = "do"]
    /\ UNCHANGED << cfgVars, codecVars, callerVars, mongoClient, startOnce, inits,
                    started >>

\* Once.Do: done is read; when it is 0 the caller goes for the mutex
OnceDo(c) ==
    /\ spc[c] = "do"
    /\ spc' = [spc EXCEPT ![c] = IF startOnce.done = 0 THEN "lock" ELSE "return"]
    /\ UNCHANGED << cfgVars, codecVars, callerVars, mongoClient, startOnce, serr,
                    inits, started >>

\* Once.doSlow: the mutex is taken and done is read again
OnceLock(c) ==
    /\ spc[c] = "lock"
    /\ ~startOnce.locked
    /\ IF startOnce.done = 0
       THEN /\ startOnce' = [startOnce EXCEPT !.locked = TRUE]
            /\ spc' = [spc EXCEPT ![c] = "init"]
       ELSE /\ startOnce' = startOnce
            /\ spc' = [spc EXCEPT ![c] = "return"]
    /\ UNCHANGED << cfgVars, codecVars, callerVars, mongoClient, serr, inits,
                    started >>

StartInit_RetriesAfterError(c, load, connect) ==
    /\ spc[c] = "init"
    /\ LET r == StartFunc(mongoClient, load, connect)
       IN  /\ mongoClient' = r.m
           /\ serr' = [serr EXCEPT ![c].err = r.err]
           /\ startOnce' = [done |-> IF r.err = "nil" THEN 1 ELSE 0,
                            locked |-> FALSE]
    /\ inits' = Append(inits, serr[c].call)
    /\ spc' = [spc EXCEPT ![c] = "return"]
    /\ UNCHANGED << cfgVars, codecVars, callerVars, started >>
\* the function runs under the mutex; then done is stored and the mutex
\* released
StartInit(c, load, connect) ==
    /\ spc[c] = "init"
    /\ LET r == StartFunc(mongoClient, load, connect)
       IN  /\ mongoClient' = r.m
           /\ serr' = [serr EXCEPT ![c].err = r.err]
    /\ inits' = Append(inits, serr[c].call)
    /\ startOnce' = [done |-> 1, locked |-> FALSE]
    /\ spc' = [spc EXCEPT ![c] = "return"]
    /\ UNCHANGED << cfgVars, codecVars, callerVars, started >>

\* return err
StartReturn(c) ==
    /\ spc[c] = "return"
    /\ started' = Append(started, serr[c])
    /\ spc' = [spc EXCEPT ![c] = "idle"]
    /\ UNCHANGED << cfgVars, codecVars, callerVars, mongoClient, startOnce, serr,
                    inits >>

NextMongo ==
    \/ \E c \in Callers : StartCall(c)
    \/ \E c \in Callers : OnceDo(c)
    \/ \E c \in Callers : OnceLock(c)
    \/ \E c \in Callers : \E load \in IniFiles \cup {NilFile} :
          \E connect \in {"ok", "err"} : StartInit(c, load, connect)
    \/ \E c \in Callers : StartReturn(c)

\* Start calls on one MongoClient
SpecMongo == InitMongo /\ [][NextMongo]_vars

----------------------------------------------------------------------------
(* Specifications *)

ByteVals == {0, 65, 255}

Codec ==
    \/ \E c \in Writers : \E p \in Pool : EncodeCall(c, p)
    \/ \E c \in Writers : EncodeWrite(c)
    \/ \E c \in Writers : Flush(c)
    \/ DecodeCall
    \/ ReadBuffered
    \/ \E n \in 1..Max(ReaderSize, MaxBody) : ReadSource(n)

\* the decoder's next Read on its bufio.Reader
DecoderStep ==
    \/ ReadBuffered
    \/ \E n \in 1..Max(ReaderSize, MaxBody) : ReadSource(n)
    \/ ReadEOF

Next == Codec

NextFault ==
    \/ Codec
    \/ ReadEOF
    \/ \E k \in 0..Len(src) : Close(k)
    \/ \E i \in 1..Len(src) : \E v \in ByteVals : Tamper(i, v)

\* the encoder alone
NextEncoder ==
    \/ \E c \in Writers : \E p \in Pool : EncodeCall(c, p)
    \/ \E c \in Writers : EncodeWrite(c)
    \/ \E c \in Writers : Flush(c)

\* the encoder alone, on a sink that may start to fail
NextEnc == NextEncoder \/ SinkFail

\* a caller that marks its packet and sends it
NextMark ==
    \/ \E c \in Writers : \E v \in Codes : SetErrCode(c, v)
    \/ \E c \in Writers : ID(c)
    \/ NextEncoder

\* several frames on a healthy connection
Spec == Init /\ [][Next]_vars

\* one frame on a connection that may be cut or tampered with
SpecOne == InitOne /\ [][NextFault]_vars

\* several frames, with a decoder that is scheduled while it can read and a
\* source that hands over the bytes it holds
SpecLive ==
    /\ InitLive /\ [][Next]_vars
    /\ WF_vars(ReadBuffered)
    /\ WF_vars(\E n \in 1..Max(ReaderSize, MaxBody) : ReadSource(n))

\* several frames written to a sink that may start to fail
SpecEnc == InitEnc /\ [][NextEnc]_vars

\* frames with declared lengths the decoder does not expect, on a healthy
\* connection
SpecDrift == InitDrift /\ [][Next]_vars

\* two callers of one encoder
SpecRace == InitRace /\ [][NextEncoder]_vars

\* a packet marked with error codes and sent
SpecMark == InitMark /\ [][NextMark]_vars

----------------------------------------------------------------------------
(* Properties *)

\* the declared length is 13 + 1 + 2 + len(Body)
Consistent(p) == p.kind = "custom" /\ p.PacketLen = U(16 + Len(p.Body))

\* every byte sent so far reaches the decoder as sent
Intact == tampered = 0 /\ src = sink

\* C1: a packet whose PacketLen is 13 + 1 + 2 + len(Body), encoded and
\* flushed, is decoded from the bytes the sink received without error and
\* equal to the original in every field.
C1_RoundTrip ==
    ( /\ scenario = "one"
      /\ Len(calls) = 1 /\ calls[1].err = "nil" /\ Consistent(calls[1].p)
      /\ bw.buf = <<>> /\ Intact
      /\ Len(decoded) = 1 )
    => /\ decoded[1].err = "nil"
       /\ decoded[1].pkt = calls[1].p

C1_Witness ==
    /\ scenario = "one"
    /\ Len(calls) = 1 /\ calls[1].err = "nil" /\ Consistent(calls[1].p)
    /\ bw.buf = <<>> /\ Intact
    /\ Len(decoded) = 1 /\ decoded[1].pkt = calls[1].p
    /\ Len(calls[1].p.Body) = MaxBody
    /\ calls[1].p.SOH = 255 /\ calls[1].p.Seq = <<65535, 65535>>

\* C2: frames with PacketLen = 16 + len(Body) written one after the other
\* are returned by successive Decode calls in the order written, each equal
\* to the original and each read from exactly its own bytes of the stream.
C2_FrameOrder ==
    \A k \in 1..Len(decoded) :
        (\A j \in 1..Min(k, Len(Frames)) : Consistent(Frames[j].p))
        => /\ k <= Len(Frames)
           /\ decoded[k].err = "nil"
           /\ decoded[k].pkt = Frames[k].p
           /\ decoded[k].from = FrameEnd(k - 1)
           /\ decoded[k].to = FrameEnd(k)

C2_Witness ==
    /\ Len(decoded) = 2 /\ Len(Frames) = 2
    /\ Consistent(Frames[1].p) /\ Consistent(Frames[2].p)
    /\ decoded[1].pkt = Frames[1].p /\ decoded[2].pkt = Frames[2].p
    /\ Frames[1].p.Body = <<>> /\ Len(Frames[2].p.Body) = MaxBody
    /\ Frames[1].p.Seq # Frames[2].p.Seq

\* C3: after Encode(p) and Flush on a fresh encoder the sink holds exactly
\* 15 + len(Body) bytes: SOH, Seq (4, big-endian), ErrCode (2), PacketLen
\* (4), Version, CheckSum (2), the body, EOH.
C3_WireLayout ==
    ( /\ scenario = "one"
      /\ Len(calls) = 1 /\ calls[1].err = "nil" /\ bw.buf = <<>> /\ ~bw.err )
    => LET p == calls[1].p
           L == Len(p.Body)
       IN  /\ Len(sink) = 15 + L
           /\ \A i \in 1..Len(sink) : sink[i] \in 0..255
           /\ sink[1] = p.SOH
           /\ sink[2] * 256 + sink[3] = p.Seq[1]
           /\ sink[4] * 256 + sink[5] = p.Seq[2]
           /\ sink[6] * 256 + sink[7] = p.ErrCode
           /\ sink[8] * 256 + sink[9] = p.PacketLen[1]
           /\ sink[10] * 256 + sink[11] = p.PacketLen[2]
           /\ sink[12] = p.Version
           /\ sink[13] * 256 + sink[14] = p.CheckSum
           /\ \A i \in 1..L : sink[14 + i] = p.Body[i]
           /\ sink[15 + L] = p.EOH

C3_Witness ==
    /\ scenario = "one"
    /\ Len(calls) = 1 /\ calls[1].err = "nil" /\ bw.buf = <<>>
    /\ Len(sink) = 15 + MaxBody
    /\ calls[1].p.ErrCode = 1286 /\ calls[1].p.CheckSum = 2057
    /\ bufferSize = SmallBuf

\* C4: an Encode call with a value that is no *CustomPacket (another
\* implementation, or nil) returns an error and leaves the encoder's buffer
\* and the sink as they were.
C4_TypeMismatch ==
    [][ ( /\ Len(calls') = Len(calls) + 1
          /\ calls'[Len(calls')].p.kind \in {"other", "nil"} )
        => /\ calls'[Len(calls')].err = "mismatch"
           /\ bw' = bw /\ sink' = sink /\ src' = src
           /\ epc' = epc ]_vars

C4_Witness ==
    /\ Len(calls) = 2
    /\ calls[1].err = "nil" /\ bw.buf # <<>>
    /\ calls[2].p.kind = "nil" /\ calls[2].err = "mismatch"

\* a declared length below 13 + 1 + 2
BelowOverhead(v) == v[1] = 0 /\ v[2] < 16

\* C5: after a header that declares a PacketLen below 16, Decode returns a
\* malformed-length error: it never goes on to allocate or read a body.
C5_MalformedLength ==
    dpc \in {"body", "eoh", "panic"} => ~BelowOverhead(dpkt.PacketLen)

\* the bytes s are a proper prefix of a frame whose header declares at
\* least 16 and a body no longer than the largest int of every build
FramePrefix(s) ==
    IF Len(s) < 11 THEN Len(s) < 8 \/ s[8] < 128
    ELSE LET d == Uint32(SubSeq(s, 8, 11))
         IN  /\ ~BelowOverhead(d)
             /\ ~BeyondInt32(BodyLen(d))
             /\ Len(s) < Count(d) - 1

\* C6: when the source ends after a proper prefix of a well-formed frame,
\* Decode returns an I/O error and no packet; it does not panic, and until
\* it has returned it always has a step to take.
C6_TruncatedStream ==
    (srcClosed /\ FramePrefix(src))
    => /\ dpc # "panic"
       /\ \A k \in 1..Len(decoded) :
             /\ decoded[k].err \in {"EOF", "ErrUnexpectedEOF"}
             /\ decoded[k].pkt = NoPacket
       /\ dpc \in Fields => ENABLED DecoderStep

C6_Witness ==
    /\ srcClosed /\ FramePrefix(src)
    /\ Len(src) = 14
    /\ Len(calls) = 1 /\ calls[1].p.Body # <<>>
    /\ Len(decoded) = 1 /\ decoded[1].err = "EOF" /\ decoded[1].to = 14

\* C7: a successful Decode of a header with PacketLen >= 16 returns
\* PacketLen - 16 body bytes and consumes PacketLen - 1 stream bytes.  Read
\* from the start of a frame written with a body of L bytes it returns the
\* whole body when PacketLen = 16 + L; with PacketLen = 15 + L it returns
\* L - 1 body bytes, the last body byte as EOH, and leaves the written end
\* sentinel unread; with any PacketLen other than 16 + L it returns a body
\* of another size or no packet.
C7_ExpectedLength ==
    /\ \A k \in 1..Len(decoded) :
          LET r == decoded[k]
          IN  (r.err = "nil" /\ ~BelowOverhead(r.pkt.PacketLen))
              => /\ Len(r.pkt.Body) = Count(r.pkt.PacketLen) - 16
                 /\ r.to - r.from = Count(r.pkt.PacketLen) - 1
    /\ \A k \in 1..Min(Len(decoded), Len(Frames)) :
          LET r == decoded[k]
              p == Frames[k].p
              L == Len(p.Body)
          IN  (r.from = FrameEnd(k - 1) /\ tampered = 0)
              => /\ (r.err = "nil" /\ p.PacketLen = U(16 + L))
                      => r.pkt.Body = p.Body
                 /\ (r.err = "nil" /\ p.PacketLen = U(15 + L) /\ L >= 1)
                      => /\ r.pkt.Body = Take(p.Body, L - 1)
                         /\ r.pkt.EOH = p.Body[L]
                         /\ r.to = FrameEnd(k) - 1
                 /\ p.PacketLen # U(16 + L)
                      => (r.err # "nil" \/ Len(r.pkt.Body) # L)

C7_Witness ==
    /\ Len(decoded) = 1 /\ Len(Frames) = 1
    /\ Len(Frames[1].p.Body) = MaxBody
    /\ Frames[1].p.PacketLen = U(15 + MaxBody)
    /\ decoded[1].err = "nil"
    /\ Len(decoded[1].pkt.Body) = MaxBody - 1
    /\ decoded[1].pkt.EOH = 64 + MaxBody
    /\ Len(sink) = 15 + MaxBody /\ dcons = 14 + MaxBody

C9_CheckSumInert ==
    ( /\ scenario = "one" /\ Len(Frames) = 1 /\ Consistent(Frames[1].p)
      /\ Len(src) = 15 + Len(Frames[1].p.Body) )
    => LET p == Frames[1].p
           L == Len(p.Body)
       IN  /\ src[13] * 256 + src[14] = p.CheckSum
           /\ \A i \in 1..L : i + 14 # tampered => src[14 + i] = p.Body[i]
           /\ Len(decoded) = 1
                => /\ decoded[1].err = "nil"
                   /\ decoded[1].pkt = [p EXCEPT !.Body = SubSeq(src, 15, 14 + L)]

C9_Witness ==
    /\ scenario = "one" /\ Len(Frames) = 1 /\ Consistent(Frames[1].p)
    /\ tampered = 14 + MaxBody
    /\ Len(decoded) = 1 /\ decoded[1].err = "nil"
    /\ decoded[1].pkt.Body # Frames[1].p.Body
    /\ decoded[1].pkt.Body[MaxBody] = src[tampered]
    /\ decoded[1].pkt.CheckSum = 2057

\* the packet read from the bytes s of one frame taken in a single piece
WholeRead(s) ==
    Pkt("custom", s[1],
        << s[2] * 256 + s[3], s[4] * 256 + s[5] >>, s[6] * 256 + s[7],
        << s[8] * 256 + s[9], s[10] * 256 + s[11] >>, s[12], s[13] * 256 + s[14],
        SubSeq(s, 15, Len(s) - 1), s[Len(s)])

\* Decode is running and the stream holds, from where it started, a whole
\* frame as its header declares it
FrameAhead ==
    /\ dpc \in Fields
    /\ Len(src) >= dfrom + 14
    /\ LET n == BodyLen(Uint32(SubSeq(src, dfrom + 8, dfrom + 11)))
       IN  ~BeyondInt32(n) /\ Len(src) >= dfrom + 15 + Count(n)

\* C10: however the source cuts the stream into pieces, a Decode that
\* returns has read start sentinel, header, body and end sentinel, and
\* returns the packet a single read of those bytes gives; once the stream
\* holds the whole frame, a running Decode eventually returns.
C10_Chunking ==
    /\ [](\A k \in 1..Len(decoded) :
             LET r == decoded[k]
             IN  r.err = "nil"
                 => /\ r.to - r.from = 1 + 13 + Len(r.pkt.Body) + 1
                    /\ r.to <= srcPos
                    /\ Len(r.pkt.Body) = Count(BodyLen(r.pkt.PacketLen))
                    /\ r.pkt = WholeRead(SubSeq(src, r.from + 1, r.to)))
    /\ (FrameAhead ~> dpc = "idle")

\* a first frame was returned and the second is arriving in pieces: the
\* reader has taken a piece that ends inside its header and waits for more
C10_Witness ==
    /\ Len(decoded) = 1 /\ decoded[1].err = "nil"
    /\ decoded[1].pkt = Frames[1].p
    /\ dpc = "header" /\ dfrom = decoded[1].to
    /\ srcPos = dfrom + 7 /\ Len(dgot) = 6 /\ br = <<>>
    /\ FrameAhead

\* the bytes of the frames whose Encode call returned nil, in call order
RECURSIVE Written(_)
Written(k) ==
    IF k = 0 THEN <<>>
    ELSE Written(k - 1)
           \o (IF calls[k].err = "nil" THEN FrameBytes(calls[k].p) ELSE <<>>)

\* a step of Flush
FlushStep == \E c \in Callers : Flush(c)

\* C11 as stated: a Flush that returns nil leaves the buffer empty and the
\* sink holding every byte Encode accepted, in order; a Flush with nothing
\* buffered writes nothing to the sink and returns nil.
C11_FlushAsStated ==
    [][ FlushStep
        => /\ ferr' = "nil"
                => /\ bw'.buf = <<>>
                   /\ sink' = sink \o bw.buf
                   /\ sink' = Written(Len(calls))
           /\ bw.buf = <<>> => (sink' = sink /\ ferr' = "nil") ]_vars

\* C11: a Flush that returns nil leaves the buffer empty and the sink
\* holding every byte Encode accepted, in order; a Flush with nothing
\* buffered writes nothing to the sink, and returns nil unless an earlier
\* write to the sink failed; after a failed write every Flush writes
\* nothing and returns the error.
C11_Flush ==
    [][ FlushStep
        => /\ ferr' = "nil"
                => /\ bw'.buf = <<>>
                   /\ sink' = sink \o bw.buf
                   /\ sink' = Written(Len(calls))
           /\ bw.buf = <<>> => (sink' = sink /\ (ferr' = "nil" <=> ~bw.err))
           /\ bw.err => (sink' = sink /\ bw' = bw /\ ferr' = "io") ]_vars

\* two frames were buffered whole and one Flush delivered both
C11_Witness ==
    /\ scenario = "enc" /\ bufferSize = LargeBuf
    /\ Len(calls) = 2 /\ calls[1].err = "nil" /\ calls[2].err = "nil"
    /\ ferr = "nil" /\ bw.buf = <<>>
    /\ sink = FrameBytes(calls[1].p) \o FrameBytes(calls[2].p)
    /\ Len(sink) <= LargeBuf

\* C12 as stated: the sink receives bytes only through Flush.
C12_BufferOnlyAsStated == [][ sink' # sink => FlushStep ]_vars

\* C12: each of Encode's four writes goes to the encoder's bufio.Writer.
\* Bytes that fit the free space of its buffer stay in the buffer and the
\* sink receives nothing; bytes that do not fit make the writer itself
\* write to the sink, within Encode.  Either way sink and buffer together
\* hold the bytes in the order written, and never more than bufferSize
\* bytes stay buffered.
C12_BufferedWrites ==
    [][ \A c \in Callers :
          (epc[c] \in Fields /\ epc'[c] # epc[c])
          => LET f == FieldBytes(epc[c], calls[ecall[c]].p)
                 free == bufferSize - Len(bw.buf)
             IN  /\ Len(bw'.buf) <= bufferSize
                 /\ ~bw'.err => sink' \o bw'.buf = sink \o bw.buf \o f
                 /\ (Len(f) <= free /\ ~bw.err)
                      => (sink' = sink /\ bw'.buf = bw.buf \o f)
                 /\ (Len(f) > free /\ ~bw.err /\ sinkOpen) => sink' # sink
                 /\ sink' # sink => Len(f) > free ]_vars

\* a whole frame was encoded and never flushed: header and body went to
\* the sink within Encode, the end sentinel waits in the buffer
C12_Witness ==
    /\ scenario = "enc" /\ bufferSize = SmallBuf /\ ferr = "none"
    /\ Len(calls) = 1 /\ calls[1].err = "nil"
    /\ Len(calls[1].p.Body) > bufferSize
    /\ sink = Take(FrameBytes(calls[1].p), 14 + Len(calls[1].p.Body))
    /\ bw.buf = << calls[1].p.EOH >>

\* C13: when one of Encode's four writes fails, Encode returns the error at
\* once: the call ends there with the error and none of its remaining
\* fields is written; a write that does not fail is followed by the next
\* field; from the failure on no byte is added to the buffer or the sink.
C13_WriteFailure ==
    [][ /\ \A c \in Callers :
              (epc[c] \in Fields /\ epc'[c] # epc[c])
              => /\ bw'.err => (epc'[c] = "idle" /\ calls'[ecall[c]].err = "io")
                 /\ ~bw'.err
                      => /\ epc'[c] = NextField(epc[c])
                         /\ calls'[ecall[c]].err
                              = (IF epc[c] = "eoh" THEN "nil" ELSE "pending")
        /\ bw.err => (sink' = sink /\ bw' = bw)
        /\ \A k \in 1..Len(calls) : calls[k].err = "io" => calls'[k].err = "io"
        /\ \A c \in Callers :
              epc'[c] \in Fields => calls'[ecall'[c]].err = "pending" ]_vars

\* the sink failed while the body filled the buffer: the write of the end
\* sentinel failed and the frame stays without it
C13_Witness ==
    /\ scenario = "enc" /\ bufferSize = SmallBuf
    /\ Len(calls) = 1 /\ calls[1].err = "io" /\ epc[1] = "idle"
    /\ bw.err /\ bw.buf = calls[1].p.Body /\ Len(bw.buf) = bufferSize
    /\ sink = Take(FrameBytes(calls[1].p), 14)

\* a step of Encode or of Flush
EncoderStep == epc' # epc \/ calls' # calls \/ FlushStep

\* C14: no step of Encode or Flush changes a field of a packet that was
\* passed to Encode, whether the call succeeds or fails; such a step
\* changes only the encoder's buffer and what the sink has received.
C14_PacketUnchanged ==
    [][ EncoderStep
        => /\ \A k \in 1..Len(calls) : calls'[k].p = calls[k].p
           /\ Len(calls') > Len(calls) => (bw' = bw /\ sink' = sink)
           /\ pkt' = pkt /\ sinkOpen' = sinkOpen /\ decVars' = decVars ]_vars

\* a packet whose PacketLen is not 16 + len(Body) and whose CheckSum is 0
\* went through a successful Encode and a Flush as it was, and a second
\* packet through an Encode that failed
C14_Witness ==
    /\ scenario = "enc"
    /\ Len(calls) = 2 /\ calls[1].err = "nil" /\ calls[2].err = "io"
    /\ ~Consistent(calls[1].p) /\ calls[1].p.kind = "custom"
    /\ calls[1].p.CheckSum = 0 /\ calls[1].p.Body # <<>>
    /\ calls[2].p.kind = "custom" /\ calls[2].p.Body # <<>>
    /\ ferr = "nil" /\ sink = FrameBytes(calls[1].p)

\* C15 as stated: once a frame was written with a PacketLen that is not
\* 16 + len(Body), no Decode returns that frame or a later frame as it was
\* written at its place in the stream.
C15_PermanentAsStated ==
    \A j \in 1..Len(Frames) :
        ~Consistent(Frames[j].p)
        => \A i \in j..Len(Frames) : \A k \in 1..Len(decoded) :
              ~ ( /\ decoded[k].err = "nil"
                  /\ decoded[k].from = FrameEnd(i - 1)
                  /\ decoded[k].pkt = Frames[i].p )

\* C15: a frame written with a PacketLen that is not 16 + len(Body) is
\* never returned as written by the Decode that reads it from its first
\* byte, and that Decode does not end at the frame's last byte; every
\* Decode starts where the one before ended, wherever that is; a Decode
\* that starts at the first byte of a frame with PacketLen = 16 + len(Body)
\* returns that frame, also after such a frame.
C15_Desync ==
    \A k \in 1..Len(decoded) :
        LET r == decoded[k]
        IN  /\ r.from = (IF k = 1 THEN 0 ELSE decoded[k - 1].to)
            /\ \A i \in 1..Len(Frames) :
                  (r.err = "nil" /\ r.from = FrameEnd(i - 1))
                  => IF Consistent(Frames[i].p)
                     THEN r.pkt = Frames[i].p /\ r.to = FrameEnd(i)
                     ELSE r.pkt # Frames[i].p /\ r.to # FrameEnd(i)

\* the first frame declared 15 bytes too many: the first Decode took the
\* second frame as its body, and the second Decode returned the third
\* frame as written
C15_Witness ==
    /\ scenario = "drift" /\ Len(Frames) = 3 /\ Len(decoded) = 2
    /\ ~Consistent(Frames[1].p) /\ Consistent(Frames[3].p)
    /\ decoded[1].err = "nil" /\ decoded[1].pkt # Frames[1].p
    /\ decoded[1].to = FrameEnd(2)
    /\ decoded[1].pkt.Body = Drop(FrameBytes(Frames[1].p), 14)
                                \o Take(FrameBytes(Frames[2].p), 14)
    /\ decoded[2].err = "nil" /\ decoded[2].pkt = Frames[3].p
    /\ decoded[2].from = FrameEnd(2)

\* the bytes of the k-th Encode call that were written so far, were they
\* written without bytes of another call between them
SoFar(k) ==
    LET p == calls[k].p
        at == { c \in Callers : ecall[c] = k /\ epc[c] \in Fields }
    IN  IF calls[k].err = "nil" THEN FrameBytes(p)
        ELSE IF at = {} THEN <<>>
        ELSE LET pc == epc[CHOOSE c \in at : TRUE]
             IN  Take(FrameBytes(p),
                      CASE pc = "soh" -> 0
                        [] pc = "header" -> 1
                        [] pc = "body" -> 14
                        [] pc = "eoh" -> 14 + Len(p.Body))

RECURSIVE InCallOrder(_)
InCallOrder(k) == IF k = 0 THEN <<>> ELSE InCallOrder(k - 1) \o SoFar(k)

\* the byte stream, in the sink or still buffered, is not the frames of
\* the Encode calls one after the other in call order
Torn == sink \o bw.buf # InCallOrder(Len(calls))

\* C16: the byte stream of an encoder is torn only when its callers do not
\* serialize their Encode calls: with calls made one at a time the stream
\* is at every moment the whole frames of the calls in call order,
\* followed by the fields the running call has written.
C16_ConcurrentEncoders == Torn => scenario = "race"

\* two unserialized Encode calls have returned nil and were flushed: the
\* stream holds the bytes of both and is neither order of the two frames
C16_Witness ==
    /\ scenario = "race"
    /\ Len(calls) = 2 /\ calls[1].err = "nil" /\ calls[2].err = "nil"
    /\ calls[1].p # calls[2].p /\ bw.buf = <<>>
    /\ Len(sink) = Len(FrameBytes(calls[1].p)) + Len(FrameBytes(calls[2].p))
    /\ sink # FrameBytes(calls[1].p) \o FrameBytes(calls[2].p)
    /\ sink # FrameBytes(calls[2].p) \o FrameBytes(calls[1].p)
    /\ sink[1] = calls[1].p.SOH /\ sink[2] = calls[2].p.SOH

\* C17 as stated: the bytes taken from the source never reach beyond the
\* end of the first frame that was not yet returned.
C17_OneFrameAheadAsStated ==
    srcPos <= FrameEnd(Min(Len(decoded) + 1, Len(Frames)))

\* C17: the decoder takes bytes from the source through a bufio.Reader of
\* max(bufferSize, 16) bytes, whatever frames they belong to: the bytes
\* taken and not yet consumed by Decode are the next bytes of the stream
\* and fewer than that size, and the source is read only while a Decode
\* call waits for bytes with that buffer empty.
C17_ReadAhead ==
    /\ [](/\ Len(br) < (IF bufferSize < 16 THEN 16 ELSE bufferSize)
          /\ srcPos = dcons + Len(br)
          /\ br = SubSeq(src, dcons + 1, srcPos))
    /\ [][ srcPos' # srcPos
           => /\ br = <<>> /\ dpc \in Fields
              /\ srcPos' > srcPos /\ dcons' > dcons ]_vars

\* one read of the source took two whole frames while the first Decode
\* was still reading the first
C17_Witness ==
    /\ bufferSize = LargeBuf /\ Len(Frames) = 2 /\ Len(decoded) = 0
    /\ dpc = "header" /\ dcons = 1
    /\ srcPos = FrameEnd(2) /\ Len(br) = FrameEnd(2) - 1
    /\ Len(br) > Len(FrameBytes(Frames[2].p))

\* Decode has read a header and has not returned
PastHeader == dpc \in {"body", "eoh", "panic"}

\* the length is (PacketLen - 16) mod 2^32 for a PacketLen below 16
Wrapped(plen) == BodyLen(plen) = << 65535, 65536 - 16 + plen[2] >>

C19_SetErrCodeTruncates ==
    /\ [](code # <<>>
            => /\ pkt.ErrCode \in 0..65535
               /\ code = << code[1], pkt.ErrCode >>)
    /\ [][ /\ (pkt' # pkt \/ code' # code)
                => /\ code' \in Codes
                   /\ pkt' = [pkt EXCEPT !.ErrCode = pkt'.ErrCode]
                   /\ id' = id
           /\ id' # id => (id' = pkt.Seq /\ pkt' = pkt)
           /\ Len(calls') > Len(calls) => calls'[Len(calls')].p = pkt ]_vars

\* a packet with ErrCode 1286 was marked with 65536, asked for its ID,
\* encoded and flushed: the sink holds ErrCode 0
C19_Witness ==
    /\ scenario = "mark" /\ code = <<1, 0>> /\ pkt.ErrCode = 0
    /\ pkt.Seq = <<258, 772>> /\ id = pkt.Seq
    /\ Len(calls) = 2 /\ calls[1].err = "nil" /\ calls[2].err = "nil"
    /\ calls[1].p.ErrCode = 1286 /\ calls[2].p = pkt
    /\ bw.buf = <<>> /\ Len(sink) = 30
    /\ sink[6] = 5 /\ sink[7] = 6 /\ sink[21] = 0 /\ sink[22] = 0

\* C20: on one MongoClient the initialization runs in at most one Start
\* call, and before any Start call has returned; every other Start call
\* returns nil and leaves the client as it is, also when the
\* initialization returned an error and connected nothing.
C20_StartOnce ==
    /\ [](/\ Len(inits) <= 1
          /\ Len(inits) = startOnce.done
          /\ started # <<>> => Len(inits) = 1
          /\ mongoClient.client # "nil" => Len(inits) = 1
          /\ \A k \in 1..Len(started) :
                (inits = <<>> \/ started[k].call # inits[1])
                => started[k].err = "nil")
    /\ [][ inits' = inits => mongoClient' = mongoClient ]_vars

\* the first Start failed to connect; a second and a third Start returned
\* nil, the initialization did not run again, no client is connected
C20_Witness ==
    /\ scenario = "db" /\ Len(started) = 3 /\ inits = << 1 >>
    /\ started[1] = [call |-> 1, err |-> "connect"]
    /\ started[2] = [call |-> 2, err |-> "nil"]
    /\ started[3] = [call |-> 3, err |-> "nil"]
    /\ mongoClient.client = "nil" /\ mongoClient.DbConfig.Hosts = 1

====
